---- MODULE Spec2Model ----
(***************************************************************************)
(* Paged KV-cache block manager and request scheduler (cacheflow).         *)
(*                                                                         *)
(* The model follows src/cacheflow/master/block_manager.py,                *)
(* src/cacheflow/master/scheduler.py and src/cacheflow/sequence.py.        *)
(* A handler (Scheduler.step, Scheduler.post_step) is one action.  The     *)
(* handlers are written as operators on a record s that holds the fields   *)
(* of the Scheduler, its BlockSpaceManager, the two BlockManagers and the  *)
(* Sequence objects.  A Python exception is the field s.err: once it is    *)
(* set every later statement of the handler is skipped, so the state an    *)
(* aborted handler leaves behind is the state at the raise.                *)
(***************************************************************************)
EXTENDS Integers, Sequences, FiniteSets, TLC

VARIABLES
    block_size,             \* Scheduler.block_size (constructor argument)
    num_gpu_blocks,         \* BlockSpaceManager.num_total_gpu_blocks
    num_cpu_blocks,         \* BlockSpaceManager.num_total_cpu_blocks
    free_blocks,            \* device -> BlockManager.free_blocks (a list, popped at the end)
    ref_count,              \* physical block -> PhysicalTokenBlock.ref_count
    block_tables,           \* BlockSpaceManager.block_tables: seq_id -> list of physical blocks
    seqs,                   \* group_id -> SequenceGroup.seqs (list of seq_ids)
    status,                 \* seq_id -> Sequence.status
    logical_token_blocks,   \* seq_id -> Sequence.logical_token_blocks (list of object ids)
    token_ids,              \* object id -> LogicalTokenBlock.token_ids
    running,                \* Scheduler.running
    swapped,                \* Scheduler.swapped
    pending,                \* Scheduler.pending
    num_steps,              \* Scheduler.num_steps
    sampling_params,        \* Scheduler.sampling_params
    frontend,               \* the Frontend: requests it may still submit, responses printed
    plan,                   \* the arguments of the last controllers[0].execute_stage call
    pc,                     \* which handler the serving loop calls next
    call,                   \* the last call made on the scheduler, with its arguments
                            \* and, for step, the pairs append returned and the
                            \* can_append tests of phase 1 made during it
    err                     \* the exception that aborted a handler, or "none"

vars == <<block_size, num_gpu_blocks, num_cpu_blocks, free_blocks, ref_count,
          block_tables, seqs, status, logical_token_blocks, token_ids,
          running, swapped, pending, num_steps, sampling_params,
          frontend, plan, pc, call, err>>

----------------------------------------------------------------------------
(* Bounds of the model.                                                    *)

\* Number of requests the frontend submits in one run.
MaxGroups == 2
\* Number of generation steps after which the serving loop of SpecCap stops
\* calling step() for a group that is still live.
MaxSteps == 3
\* Token ids the sampler may return.
Tokens == {0, 1}
\* SamplingParams.stop_token_ids of every request.
StopTokenIds == {1}

----------------------------------------------------------------------------
(* Program constants.                                                      *)

_MAX_NUM_BATCHED_TOKENS == 2048

\* BlockManager.__init__: "assert block_size in [8, 16, 32]"
BlockSizes == {8, 16, 32}

\* Python's None, where a list or a tuple is the other possible value.
None == <<>>

\* Sequence.status of a sequence the frontend has not yet built, and the
\* status argument of num_seqs() when it is left out.
NoStatus == "None"

----------------------------------------------------------------------------
(* Helpers for Python lists and dicts.                                     *)

Range(f) == {f[x] : x \in DOMAIN f}

Last(l) == l[Len(l)]

Take(l, n) == SubSeq(l, 1, IF n < Len(l) THEN n ELSE Len(l))

Drop(l, n) == SubSeq(l, n + 1, Len(l))

\* Number of positions of list l that hold x.
Count(l, x) == Cardinality({i \in DOMAIN l : l[i] = x})

\* dict.update(m) and d[k] = v: the entries of m replace those of d.
DictUpdate(d, m) == m @@ d

\* del d[k]
DictDel(d, k) == [x \in (DOMAIN d) \ {k} |-> d[x]]

EmptyDict == <<>>

Ok(s) == s.err = "none"

\* ValueError('Out of memory! ...') of the allocator of `device`.
OutOfMemory(device) ==
    IF device = "GPU" THEN "OutOfMemory_GPU" ELSE "OutOfMemory_CPU"

\* raise: the first exception wins, the handler stops there.
Raise(s, e) == IF Ok(s) THEN [s EXCEPT !.err = e] ELSE s

\* Statement sequencing: Rest runs on the state s the statements before it
\* left, unless one of them raised.
Then(s, Rest(_)) == IF Ok(s) THEN Rest(s) ELSE s

----------------------------------------------------------------------------
(* cacheflow.block: PhysicalTokenBlock and LogicalTokenBlock.              *)

PhysicalTokenBlock(device, block_number) ==
    [device |-> device, block_number |-> block_number]

\* LogicalTokenBlock.is_full
is_full(s, lb) == Len(s.token_ids[lb]) = s.block_size

\* LogicalTokenBlock.get_num_empty_slots
get_num_empty_slots(s, lb) == s.block_size - Len(s.token_ids[lb])

\* A fresh LogicalTokenBlock object: the smallest identity not in use.
NewObject(s) ==
    CHOOSE n \in 1..(Cardinality(DOMAIN s.token_ids) + 1) :
        /\ n \notin DOMAIN s.token_ids
        /\ \A m \in 1..(n - 1) : m \in DOMAIN s.token_ids

----------------------------------------------------------------------------
(* BlockManager: the allocator of one device.                              *)

\* BlockManager.__init__: the free list holds blocks 0 .. num_blocks-1.
BlockManager_init(device, num_blocks) ==
    [i \in 1..num_blocks |-> PhysicalTokenBlock(device, i - 1)]

\* A faulty BlockManager.allocate: the ref_count of the block is not set.
BlockManager_allocate_NoCount(s, device) ==
    IF ~Ok(s) THEN s
    ELSE IF s.free_blocks[device] = <<>> THEN Raise(s, OutOfMemory(device))
    ELSE LET fb == s.free_blocks[device]
         IN [s EXCEPT !.free_blocks[device] = SubSeq(fb, 1, Len(fb) - 1),
                      !.ret = Last(fb)]

\* BlockManager.allocate: the block is returned in s.ret.
BlockManager_allocate(s, device) ==
    IF ~Ok(s) THEN s
    ELSE IF s.free_blocks[device] = <<>> THEN Raise(s, OutOfMemory(device))
    ELSE LET fb == s.free_blocks[device]
             block == Last(fb)
         IN [s EXCEPT !.free_blocks[device] = SubSeq(fb, 1, Len(fb) - 1),
                      !.ref_count[block] = 1,
                      !.ret = block]

\* A faulty BlockManager.free: the block goes back to the free list
\* at every free, whatever its ref_count.
BlockManager_free_Always(s, device, block) ==
    IF ~Ok(s) THEN s
    ELSE IF s.ref_count[block] = 0 THEN Raise(s, "DoubleFree")
    ELSE [s EXCEPT !.ref_count[block] = @ - 1,
                   !.free_blocks[device] = Append(@, block)]

\* BlockManager.free of the allocator of `device`.
BlockManager_free(s, device, block) ==
    IF ~Ok(s) THEN s
    ELSE IF s.ref_count[block] = 0 THEN Raise(s, "DoubleFree")
    ELSE LET rc == s.ref_count[block] - 1
         IN [s EXCEPT !.ref_count[block] = rc,
                      !.free_blocks[device] =
                          IF rc = 0 THEN Append(@, block) ELSE @]

\* BlockManager.get_num_free_blocks
get_num_free_blocks(s, device) == Len(s.free_blocks[device])

----------------------------------------------------------------------------
(* Sequence and SequenceGroup.                                             *)

\* Sequence.add_block
add_block(s, seq) ==
    [s EXCEPT !.token_ids = (NewObject(s) :> <<>>) @@ @,
              !.logical_token_blocks[seq] = Append(@, NewObject(s))]

\* Sequence.append, "if not self.logical_token_blocks: self.add_block()"
append_first_block(s, seq) ==
    IF s.logical_token_blocks[seq] = <<>> THEN add_block(s, seq) ELSE s

\* Sequence.append, "if last_block.is_full(): self.add_block()"
append_last_block(s, seq) ==
    IF is_full(s, Last(s.logical_token_blocks[seq])) THEN add_block(s, seq) ELSE s

\* Sequence.append, "last_block.append(token_ids[:num_empty_slots])"
append_fill(s, seq, toks) ==
    [s EXCEPT !.token_ids[Last(s.logical_token_blocks[seq])] =
        @ \o Take(toks, get_num_empty_slots(s, Last(s.logical_token_blocks[seq])))]

\* Sequence.append: the while loop, one turn per call.
RECURSIVE Sequence_append(_, _, _)
Sequence_append(s, seq, toks) ==
    IF ~Ok(s) \/ toks = <<>> THEN s
    ELSE Then(append_last_block(append_first_block(s, seq), seq),
              LAMBDA s1 :
                  Sequence_append(
                      append_fill(s1, seq, toks), seq,
                      Drop(toks, get_num_empty_slots(
                                     s1, Last(s1.logical_token_blocks[seq])))))

RECURSIVE SumLen(_, _)
SumLen(s, lbs) ==
    IF lbs = <<>> THEN 0
    ELSE Len(s.token_ids[lbs[1]]) + SumLen(s, Tail(lbs))

\* Sequence.get_len
get_len(s, seq) == SumLen(s, s.logical_token_blocks[seq])

RECURSIVE Concat(_, _)
Concat(s, lbs) ==
    IF lbs = <<>> THEN <<>>
    ELSE s.token_ids[lbs[1]] \o Concat(s, Tail(lbs))

\* Sequence.get_token_ids
get_token_ids(s, seq) == Concat(s, s.logical_token_blocks[seq])

\* SequenceGroup.num_seqs(status)
num_seqs(s, g, st) ==
    IF st = NoStatus THEN Len(s.seqs[g])
    ELSE Cardinality({i \in DOMAIN s.seqs[g] : s.status[s.seqs[g][i]] = st})

\* SequenceGroup.is_finished
is_finished(s, g) ==
    \A i \in DOMAIN s.seqs[g] : s.status[s.seqs[g][i]] = "FINISHED"

----------------------------------------------------------------------------
(* BlockSpaceManager.                                                      *)

\* BlockSpaceManager.can_allocate
can_allocate(s, g) ==
    LET seq == s.seqs[g][1]
        num_required_blocks == Len(s.logical_token_blocks[seq])
        num_free_gpu_blocks == get_num_free_blocks(s, "GPU")
    IN num_required_blocks <= num_free_gpu_blocks

\* BlockSpaceManager.allocate, the loop "for _ in range(len(seq.logical_token_blocks))"
\* followed by the assignment of a copy of the table to every sequence.
RECURSIVE allocate_loop(_, _, _, _)
allocate_loop(s, g, n, block_table) ==
    IF ~Ok(s) THEN s
    ELSE IF n = 0
    THEN [s EXCEPT !.block_tables =
             [q \in Range(s.seqs[g]) |-> block_table] @@ @]
    ELSE Then(BlockManager_allocate(s, "GPU"),
              LAMBDA s1 :
                  allocate_loop(
                      [s1 EXCEPT !.ref_count[s1.ret] = num_seqs(s1, g, NoStatus)],
                      g, n - 1, Append(block_table, s1.ret)))

\* BlockSpaceManager.allocate
allocate(s, g) ==
    allocate_loop(s, g, Len(s.logical_token_blocks[s.seqs[g][1]]), <<>>)

\* A faulty can_append: one free block is taken to be enough for any group.
can_append_OneBlock(s, g) ==
    LET num_free_gpu_blocks == get_num_free_blocks(s, "GPU")
    IN 1 <= num_free_gpu_blocks

\* BlockSpaceManager.can_append
can_append(s, g) ==
    LET num_free_gpu_blocks == get_num_free_blocks(s, "GPU")
        n == num_seqs(s, g, "RUNNING")
    IN n <= num_free_gpu_blocks

\* A faulty append: a sequence that rolled over to a new logical block
\* gets no physical block for it.
append_NoGrow(s, seq) ==
    IF ~Ok(s) THEN s
    ELSE IF seq \notin DOMAIN s.block_tables THEN Raise(s, "KeyError")
    ELSE [s EXCEPT !.ret = None]

\* A faulty append: a last block shared with other sequences is written in
\* place, without copy on write.
append_InPlace(s, seq) ==
    IF ~Ok(s) THEN s
    ELSE IF seq \notin DOMAIN s.block_tables THEN Raise(s, "KeyError")
    ELSE IF Len(s.block_tables[seq]) < Len(s.logical_token_blocks[seq])
    THEN Then(BlockManager_allocate(s, "GPU"),
              LAMBDA s1 : [s1 EXCEPT !.block_tables[seq] = Append(@, s1.ret),
                                     !.ret = None])
    ELSE [s EXCEPT !.ret = None]

\* BlockSpaceManager.append: s.ret is None or the copy-on-write pair.
append(s, seq) ==
    IF ~Ok(s) THEN s
    ELSE IF seq \notin DOMAIN s.block_tables THEN Raise(s, "KeyError")
    ELSE IF Len(s.block_tables[seq]) < Len(s.logical_token_blocks[seq])
    THEN Then(BlockManager_allocate(s, "GPU"),
              LAMBDA s1 : [s1 EXCEPT !.block_tables[seq] = Append(@, s1.ret),
                                     !.ret = None])
    ELSE IF s.block_tables[seq] = <<>> THEN Raise(s, "IndexError")
    ELSE IF Last(s.block_tables[seq]).device # "GPU"
    THEN Raise(s, "AssertionError_device")
    ELSE IF s.ref_count[Last(s.block_tables[seq])] = 1
    THEN [s EXCEPT !.ret = None]
    ELSE Then(BlockManager_allocate(s, "GPU"),
              LAMBDA s1 :
                  Then(BlockManager_free(
                           [s1 EXCEPT !.block_tables[seq][Len(s.block_tables[seq])] = s1.ret,
                                      !.new_block = s1.ret],
                           "GPU", Last(s.block_tables[seq])),
                       LAMBDA s2 :
                           [s2 EXCEPT !.ret =
                               <<Last(s.block_tables[seq]).block_number,
                                 s2.new_block.block_number>>]))

\* A faulty fork: the parent's table is cloned, the ref_counts are not raised.
fork_NoRef(s, parent_seq, child_seq) ==
    IF ~Ok(s) THEN s
    ELSE IF parent_seq \notin DOMAIN s.block_tables THEN Raise(s, "KeyError_fork")
    ELSE [s EXCEPT !.block_tables = (child_seq :> s.block_tables[parent_seq]) @@ @]

\* BlockSpaceManager.fork
fork(s, parent_seq, child_seq) ==
    IF ~Ok(s) THEN s
    ELSE IF parent_seq \notin DOMAIN s.block_tables THEN Raise(s, "KeyError_fork")
    ELSE LET src_block_table == s.block_tables[parent_seq]
         IN [s EXCEPT !.block_tables = (child_seq :> src_block_table) @@ @,
                      !.ref_count = [b \in DOMAIN @ |->
                                        @[b] + Count(src_block_table, b)]]

\* BlockSpaceManager._get_physical_blocks: the set of blocks of the sequences
\* of the group that are not FINISHED.
_get_physical_blocks(s, g) ==
    UNION {Range(s.block_tables[q]) :
              q \in {x \in Range(s.seqs[g]) :
                        s.status[x] # "FINISHED" /\ x \in DOMAIN s.block_tables}}

\* _get_physical_blocks raises KeyError for a live sequence without a table.
physical_blocks_KeyError(s, g) ==
    \E x \in Range(s.seqs[g]) :
        s.status[x] # "FINISHED" /\ x \notin DOMAIN s.block_tables

\* BlockSpaceManager.can_swap_in
can_swap_in(s, g) ==
    LET blocks == _get_physical_blocks(s, g)
        num_swapped_seqs == num_seqs(s, g, "SWAPPED")
        num_free_blocks == get_num_free_blocks(s, "GPU")
    IN Cardinality(blocks) + num_swapped_seqs <= num_free_blocks

\* BlockSpaceManager.can_swap_out
can_swap_out(s, g) ==
    LET blocks == _get_physical_blocks(s, g)
    IN Cardinality(blocks) <= get_num_free_blocks(s, "CPU")

\* A faulty inner loop of swap_in / swap_out: every table position gets a
\* block of its own, the dict of the blocks already moved is not consulted.
RECURSIVE swap_table_NoShare(_, _, _, _, _, _)
swap_table_NoShare(s, block_table, i, new_block_table, src, dst) ==
    IF ~Ok(s) THEN s
    ELSE IF i > Len(block_table) THEN [s EXCEPT !.ret = new_block_table]
    ELSE Then(Then(BlockManager_allocate(s, dst),
                   LAMBDA a : [a EXCEPT !.mapping =
                                  (block_table[i] :> a.ret) @@ @]),
              LAMBDA s1 :
                  swap_table_NoShare(
                      BlockManager_free(s1, src, block_table[i]),
                      block_table, i + 1,
                      Append(new_block_table, s1.ret), src, dst))

\* The inner loop of swap_in / swap_out: "for block in block_table", from
\* position i, moving a table from the allocator `src` to the allocator `dst`.
\* s.mapping is the dict source block -> destination block.
RECURSIVE swap_table(_, _, _, _, _, _)
swap_table(s, block_table, i, new_block_table, src, dst) ==
    IF ~Ok(s) THEN s
    ELSE IF i > Len(block_table) THEN [s EXCEPT !.ret = new_block_table]
    ELSE Then(IF block_table[i] \in DOMAIN s.mapping
              THEN [s EXCEPT !.ref_count[s.mapping[block_table[i]]] = @ + 1,
                             !.ret = s.mapping[block_table[i]]]
              ELSE Then(BlockManager_allocate(s, dst),
                        LAMBDA a : [a EXCEPT !.mapping =
                                       (block_table[i] :> a.ret) @@ @]),
              LAMBDA s1 :
                  swap_table(BlockManager_free(s1, src, block_table[i]),
                             block_table, i + 1,
                             Append(new_block_table, s1.ret), src, dst))

\* The outer loop of swap_in / swap_out: "for seq in seq_group.seqs", from
\* position k of the group.
RECURSIVE swap_seqs(_, _, _, _, _)
swap_seqs(s, g, k, src, dst) ==
    IF ~Ok(s) \/ k > Len(s.seqs[g]) THEN s
    ELSE IF s.status[s.seqs[g][k]] = "FINISHED" THEN swap_seqs(s, g, k + 1, src, dst)
    ELSE IF s.seqs[g][k] \notin DOMAIN s.block_tables THEN Raise(s, "KeyError")
    ELSE Then(swap_table(s, s.block_tables[s.seqs[g][k]], 1, <<>>, src, dst),
              LAMBDA s1 :
                  swap_seqs([s1 EXCEPT !.block_tables[s.seqs[g][k]] = s1.ret],
                            g, k + 1, src, dst))

\* The dict block_number -> block_number built from s.mapping.
block_number_mapping(s) ==
    [n \in {b.block_number : b \in DOMAIN s.mapping} |->
        s.mapping[CHOOSE b \in DOMAIN s.mapping : b.block_number = n].block_number]

\* BlockSpaceManager.swap_in: s.ret is the dict CPU block number -> GPU block number.
swap_in(s, g) ==
    Then(swap_seqs([s EXCEPT !.mapping = EmptyDict], g, 1, "CPU", "GPU"),
         LAMBDA s1 : [s1 EXCEPT !.ret = block_number_mapping(s1)])

\* BlockSpaceManager.swap_out: s.ret is the dict GPU block number -> CPU block number.
swap_out(s, g) ==
    Then(swap_seqs([s EXCEPT !.mapping = EmptyDict], g, 1, "GPU", "CPU"),
         LAMBDA s1 : [s1 EXCEPT !.ret = block_number_mapping(s1)])

\* BlockSpaceManager._free_block_table, from position i of the table.
RECURSIVE _free_block_table(_, _, _)
_free_block_table(s, block_table, i) ==
    IF ~Ok(s) \/ i > Len(block_table) THEN s
    ELSE _free_block_table(
             BlockManager_free(s, block_table[i].device, block_table[i]),
             block_table, i + 1)

\* A faulty free: the mapping entry is removed, the blocks are not freed.
free_NoRelease(s, seq) ==
    IF ~Ok(s) THEN s
    ELSE IF seq \notin DOMAIN s.block_tables THEN Raise(s, "KeyError")
    ELSE [s EXCEPT !.block_tables = DictDel(@, seq)]

\* BlockSpaceManager.free
free(s, seq) ==
    IF ~Ok(s) THEN s
    ELSE IF seq \notin DOMAIN s.block_tables THEN Raise(s, "KeyError")
    ELSE Then(_free_block_table(s, s.block_tables[seq], 1),
              LAMBDA s1 : [s1 EXCEPT !.block_tables = DictDel(@, seq)])

\* The loop of reset over self.block_tables.values(); `todo` is the set of
\* the seq_ids whose table is still to be freed.  The result does not
\* depend on the order up to the order of the free lists; the tables are
\* taken by ascending seq_id.
RECURSIVE reset_tables(_, _)
reset_tables(s, todo) ==
    IF ~Ok(s) \/ todo = {} THEN s
    ELSE LET seq == CHOOSE x \in todo : \A y \in todo : x <= y
         IN reset_tables(_free_block_table(s, s.block_tables[seq], 1),
                         todo \ {seq})

\* A faulty reset: the mapping is cleared, the tables are not freed.
reset_ClearOnly(s) ==
    IF ~Ok(s) THEN s
    ELSE [s EXCEPT !.block_tables = EmptyDict]

\* BlockSpaceManager.reset
reset(s) ==
    Then(reset_tables(s, DOMAIN s.block_tables),
         LAMBDA s1 : [s1 EXCEPT !.block_tables = EmptyDict])

\* BlockSpaceManager.get_block_table
get_block_table(s, seq) ==
    [i \in DOMAIN s.block_tables[seq] |-> s.block_tables[seq][i].block_number]

----------------------------------------------------------------------------
(* The Frontend.  A request is [num_seqs, prompt_len, max_num_steps]; the  *)
(* frontend numbers groups and sequences in arrival order.                 *)

\* The prompt of a request: prompt_len tokens.
Prompt(n) == [i \in 1..n |-> 0]

\* Sequence.__init__ for the sequence seq of a new group.
Sequence_init(s, seq, toks) ==
    Sequence_append([s EXCEPT !.logical_token_blocks = (seq :> <<>>) @@ @,
                              !.status = (seq :> "PENDING") @@ @],
                    seq, toks)

RECURSIVE NewSequences(_, _, _)
NewSequences(s, ids, toks) ==
    IF ids = <<>> THEN s
    ELSE NewSequences(Sequence_init(s, ids[1], toks), Tail(ids), toks)

\* The frontend builds the SequenceGroup of request r: group_id and seq_ids
\* are the next unused ones.
NewGroup(s, r) ==
    [NewSequences(s, [k \in 1..r.num_seqs |-> s.frontend.next_seq_id + k - 1],
                  Prompt(r.prompt_len))
        EXCEPT !.seqs = (s.frontend.next_group_id :>
                            [k \in 1..r.num_seqs |-> s.frontend.next_seq_id + k - 1]) @@ @,
               !.frontend.next_group_id = @ + 1,
               !.frontend.next_seq_id = @ + r.num_seqs,
               !.ret = s.frontend.next_group_id]

\* SamplingParams of request r.
SamplingParams(r) ==
    [stop_token_ids |-> StopTokenIds, max_num_steps |-> r.max_num_steps]

----------------------------------------------------------------------------
(* Scheduler.                                                              *)

\* Scheduler._fetch_inputs: inputs is what frontend.get_inputs() returns.
RECURSIVE _fetch_inputs(_, _)
_fetch_inputs(s, inputs) ==
    IF ~Ok(s) \/ inputs = <<>> THEN s
    ELSE Then(NewGroup(s, inputs[1]),
              LAMBDA s1 :
                  _fetch_inputs(
                      [s1 EXCEPT !.pending = Append(@, s1.ret),
                                 !.sampling_params =
                                     (s1.ret :> SamplingParams(inputs[1])) @@ @],
                      Tail(inputs)))

\* Scheduler._free_seq
_free_seq(s, seq) ==
    IF ~Ok(s) THEN s
    ELSE free([s EXCEPT !.status[seq] = "FINISHED"], seq)

\* Scheduler._allocate
_allocate(s, g) ==
    Then(allocate(s, g),
         LAMBDA s1 :
             [s1 EXCEPT !.status = [q \in DOMAIN @ |->
                                       IF q \in Range(s1.seqs[g]) THEN "RUNNING" ELSE @[q]],
                        !.running = Append(@, g),
                        !.num_steps = (g :> 0) @@ @])

\* Scheduler._append, from position k of seq_group.seqs.
RECURSIVE _append_from(_, _, _)
_append_from(s, g, k) ==
    IF ~Ok(s) \/ k > Len(s.seqs[g]) THEN s
    ELSE IF s.status[s.seqs[g][k]] = "FINISHED" THEN _append_from(s, g, k + 1)
    ELSE Then(append(s, s.seqs[g][k]),
              LAMBDA s1 :
                  IF s1.ret # None
                  THEN _append_from(
                           [s1 EXCEPT !.blocks_to_copy =
                               DictUpdate(@, s1.ret[1] :> s1.ret[2]),
                                      !.copies = Append(@, s1.ret)],
                           g, k + 1)
                  ELSE _append_from(s1, g, k + 1))

\* Scheduler._append
_append(s, g) == _append_from(s, g, 1)

\* Scheduler._swap_in
_swap_in(s, g) ==
    Then(swap_in(s, g),
         LAMBDA s1 :
             [s1 EXCEPT !.blocks_to_swap_in = DictUpdate(@, s1.ret),
                        !.status = [q \in DOMAIN @ |->
                                       IF q \in Range(s1.seqs[g]) /\ @[q] = "SWAPPED"
                                       THEN "RUNNING" ELSE @[q]],
                        !.running = Append(@, g)])

\* Scheduler._swap_out
_swap_out(s, g) ==
    IF ~Ok(s) THEN s
    ELSE IF physical_blocks_KeyError(s, g) THEN Raise(s, "KeyError")
    ELSE IF ~can_swap_out(s, g) THEN Raise(s, "AssertionError_can_swap_out")
    ELSE Then(swap_out(s, g),
              LAMBDA s1 :
                  [s1 EXCEPT !.blocks_to_swap_out = DictUpdate(@, s1.ret),
                             !.status = [q \in DOMAIN @ |->
                                            IF q \in Range(s1.seqs[g]) /\ @[q] = "RUNNING"
                                            THEN "SWAPPED" ELSE @[q]],
                             !.swapped = Append(@, g)])

\* One evaluation of "while not can_append(seq_group)" in phase 1, noted in
\* s.reserve: the position i of the group, the victim cursor and the value
\* can_append returned.
reserve_turn(s, i, victim_idx, can) ==
    [s EXCEPT !.reserve = Append(@, [i |-> i, victim_idx |-> victim_idx,
                                     can_append |-> can])]

\* Scheduler.step, phase 1: reserve new slots for the running sequences.
\* i is the position of the outer loop, victim_idx the victim cursor
\* (positions count from 1 here, from 0 in the source).
RECURSIVE step_reserve(_, _, _)
step_reserve(s, i, victim_idx) ==
    IF ~Ok(s) THEN s
    ELSE IF i > Len(s.running) \/ i > victim_idx
    THEN [s EXCEPT !.running = SubSeq(@, 1, victim_idx)]
    ELSE IF physical_blocks_KeyError(s, s.running[i]) THEN Raise(s, "KeyError")
    ELSE IF ~can_append(s, s.running[i])
    THEN step_reserve(_swap_out(reserve_turn(s, i, victim_idx, FALSE),
                                s.running[victim_idx]),
                      IF i > victim_idx - 1 THEN i + 1 ELSE i,
                      victim_idx - 1)
    ELSE step_reserve(_append(reserve_turn(s, i, victim_idx, TRUE),
                              s.running[i]),
                      i + 1, victim_idx)

\* Scheduler.step, phase 2: swap in the swapped sequences if possible.
\* i counts the groups of reversed(self.swapped) already swapped in.
RECURSIVE step_swap_in(_, _)
step_swap_in(s, i) ==
    IF ~Ok(s) THEN s
    ELSE IF i = Len(s.swapped) THEN [s EXCEPT !.swapped = <<>>]
    ELSE IF physical_blocks_KeyError(s, s.swapped[Len(s.swapped) - i])
    THEN Raise(s, "KeyError")
    ELSE IF can_swap_in(s, s.swapped[Len(s.swapped) - i])
    THEN step_swap_in(_append(_swap_in(s, s.swapped[Len(s.swapped) - i]),
                              s.swapped[Len(s.swapped) - i]),
                      i + 1)
    ELSE [s EXCEPT !.swapped = SubSeq(@, 1, Len(@) - i)]

RECURSIVE SumRunning(_, _)
SumRunning(s, groups) ==
    IF groups = <<>> THEN 0
    ELSE num_seqs(s, groups[1], "RUNNING") + SumRunning(s, Tail(groups))

\* A faulty phase 3: a group that cannot be admitted is passed over and
\* the groups behind it are tried.
RECURSIVE step_admit_PassOver(_, _, _)
step_admit_PassOver(s, i, num_batched_tokens) ==
    IF ~Ok(s) \/ i > Len(s.pending) THEN s
    ELSE IF /\ can_allocate(s, s.pending[i])
            /\ num_batched_tokens + get_len(s, s.seqs[s.pending[i]][1])
                   <= _MAX_NUM_BATCHED_TOKENS
    THEN step_admit_PassOver(
             [_allocate(s, s.pending[i])
                 EXCEPT !.pending = SubSeq(@, 1, i - 1) \o SubSeq(@, i + 1, Len(@))],
             i,
             num_batched_tokens + get_len(s, s.seqs[s.pending[i]][1]))
    ELSE step_admit_PassOver(s, i + 1, num_batched_tokens)

\* Scheduler.step, phase 3: the loop over self.pending from position i.
RECURSIVE step_admit(_, _, _)
step_admit(s, i, num_batched_tokens) ==
    IF ~Ok(s) THEN s
    ELSE IF i > Len(s.pending) THEN [s EXCEPT !.pending = <<>>]
    ELSE IF /\ can_allocate(s, s.pending[i])
            /\ num_batched_tokens + get_len(s, s.seqs[s.pending[i]][1])
                   <= _MAX_NUM_BATCHED_TOKENS
    THEN step_admit(_allocate(s, s.pending[i]), i + 1,
                    num_batched_tokens + get_len(s, s.seqs[s.pending[i]][1]))
    ELSE [s EXCEPT !.pending = SubSeq(@, i, Len(@))]

\* A faulty phase 3: the inputs are fetched and the pending groups admitted
\* whether or not a group is swapped out.
step_join_Always(s, inputs) ==
    IF ~Ok(s) THEN s
    ELSE step_admit(_fetch_inputs(s, inputs), 1, SumRunning(s, s.running))

\* Scheduler.step, phase 3: join new sequences if possible, "if not
\* self.swapped".
step_join(s, inputs) ==
    IF ~Ok(s) THEN s
    ELSE IF s.swapped = <<>>
    THEN step_admit(_fetch_inputs(s, inputs), 1, SumRunning(s, s.running))
    ELSE s

\* The sequences step() emits: the RUNNING sequences of the running groups.
PlanSeqs(s) ==
    {q \in DOMAIN s.status :
        /\ s.status[q] = "RUNNING"
        /\ \E i \in DOMAIN s.running : q \in Range(s.seqs[s.running[i]])}

GroupOf(s, q) == CHOOSE g \in DOMAIN s.seqs : q \in Range(s.seqs[g])

\* Scheduler.step, phases 4 and 5: the arguments of execute_stage.
ExecuteStage(s) ==
    LET emitted == PlanSeqs(s)
        prompts == {q \in emitted : s.num_steps[GroupOf(s, q)] = 0}
    IN [prompt_tokens |-> [q \in prompts |-> get_token_ids(s, q)],
        generation_tokens |-> [q \in emitted \ prompts |-> Last(get_token_ids(s, q))],
        context_lens |-> [q \in emitted \ prompts |-> get_len(s, q)],
        block_tables |-> [q \in emitted |-> get_block_table(s, q)],
        blocks_to_swap_in |-> s.blocks_to_swap_in,
        blocks_to_swap_out |-> s.blocks_to_swap_out,
        blocks_to_copy |-> s.blocks_to_copy]

\* Scheduler.step
step(s, inputs) ==
    Then(step_reserve([s EXCEPT !.blocks_to_swap_in = EmptyDict,
                                !.blocks_to_swap_out = EmptyDict,
                                !.blocks_to_copy = EmptyDict],
                      1, Len(s.running)),
    LAMBDA s1 :
    Then(step_swap_in(s1, 0),
    LAMBDA s2 :
    Then(step_join(s2, inputs),
    LAMBDA s3 :
    Then(IF DOMAIN s3.blocks_to_swap_in # {} /\ DOMAIN s3.blocks_to_swap_out # {}
         THEN Raise(s3, "AssertionError_swap")
         ELSE s3,
    LAMBDA s4 :
        IF \E q \in PlanSeqs(s4) : q \notin DOMAIN s4.block_tables
        THEN Raise(s4, "KeyError")
        ELSE [s4 EXCEPT !.plan = ExecuteStage(s4)]))))

\* Scheduler._return; the group and its sequences go to the frontend.
_return(s, g) ==
    IF ~Ok(s) THEN s
    ELSE [s EXCEPT !.num_steps = DictDel(@, g),
                   !.sampling_params = DictDel(@, g),
                   !.frontend.responses = Append(@, g)]

\* Scheduler.post_step, the body of "for seq in seq_group.seqs".
post_step_seq(s, g, seq, next_tokens) ==
    IF ~Ok(s) \/ s.status[seq] = "FINISHED" THEN s
    ELSE IF seq \notin DOMAIN next_tokens THEN Raise(s, "KeyError")
    ELSE
    Then(IF seq # next_tokens[seq][1]
         THEN Then(free(s, seq),
                   LAMBDA a :
                       IF next_tokens[seq][1] \notin Range(a.seqs[g])
                       THEN Raise(a, "ValueError_find")
                       ELSE fork([a EXCEPT !.logical_token_blocks[seq] =
                                      a.logical_token_blocks[next_tokens[seq][1]]],
                                 next_tokens[seq][1], seq))
         ELSE s,
    LAMBDA s1 :
    Then(Sequence_append(s1, seq, <<next_tokens[seq][2]>>),
    LAMBDA s2 :
        IF next_tokens[seq][2] \in s2.sampling_params[g].stop_token_ids
        THEN _free_seq(s2, seq)
        ELSE IF s2.num_steps[g] = s2.sampling_params[g].max_num_steps
        THEN _free_seq(s2, seq)
        ELSE s2))

RECURSIVE post_step_seqs(_, _, _, _)
post_step_seqs(s, g, k, next_tokens) ==
    IF ~Ok(s) \/ k > Len(s.seqs[g]) THEN s
    ELSE post_step_seqs(post_step_seq(s, g, s.seqs[g][k], next_tokens),
                        g, k + 1, next_tokens)

\* Scheduler.post_step, the first loop "for seq_group in self.running".
RECURSIVE post_step_groups(_, _, _)
post_step_groups(s, i, next_tokens) ==
    IF ~Ok(s) \/ i > Len(s.running) THEN s
    ELSE post_step_groups(
             post_step_seqs([s EXCEPT !.num_steps[s.running[i]] = @ + 1],
                            s.running[i], 1, next_tokens),
             i + 1, next_tokens)

\* Scheduler.post_step, the second loop: finished groups are returned.
RECURSIVE post_step_update(_, _, _)
post_step_update(s, i, new_running) ==
    IF ~Ok(s) THEN s
    ELSE IF i > Len(s.running) THEN [s EXCEPT !.running = new_running]
    ELSE IF is_finished(s, s.running[i])
    THEN post_step_update(_return(s, s.running[i]), i + 1, new_running)
    ELSE post_step_update(s, i + 1, Append(new_running, s.running[i]))

\* The objects still referenced once the returned groups are gone: a group
\* that was returned is held by the frontend alone, and a LogicalTokenBlock
\* no sequence references is unreachable.
Collect(s) ==
    LET live_groups == Range(s.running) \cup Range(s.swapped) \cup Range(s.pending)
        live_seqs == UNION {Range(s.seqs[g]) : g \in live_groups}
        live_lbs == UNION {Range(s.logical_token_blocks[q]) : q \in live_seqs}
    IN [s EXCEPT !.seqs = [g \in live_groups |-> @[g]],
                 !.status = [q \in live_seqs |-> @[q]],
                 !.logical_token_blocks = [q \in live_seqs |-> @[q]],
                 !.token_ids = [lb \in live_lbs |-> @[lb]]]

\* Scheduler.post_step
post_step(s, next_tokens) ==
    Then(post_step_update(post_step_groups(s, 1, next_tokens), 1, <<>>),
         LAMBDA s1 : Collect(s1))

----------------------------------------------------------------------------
(* The state machine.                                                      *)

\* The record the handlers work on: the fields of the objects, the locals
\* of step() that outlive one call (the three block maps), the value the
\* last call returned (ret), the local new_block of append, the dict of
\* swap_in / swap_out (mapping), the list of the pairs that
\* block_manager.append has returned to _append (copies) and the list of
\* the can_append tests of phase 1 (reserve).
State ==
    [block_size |-> block_size,
     num_gpu_blocks |-> num_gpu_blocks,
     num_cpu_blocks |-> num_cpu_blocks,
     free_blocks |-> free_blocks,
     ref_count |-> ref_count,
     block_tables |-> block_tables,
     seqs |-> seqs,
     status |-> status,
     logical_token_blocks |-> logical_token_blocks,
     token_ids |-> token_ids,
     running |-> running,
     swapped |-> swapped,
     pending |-> pending,
     num_steps |-> num_steps,
     sampling_params |-> sampling_params,
     frontend |-> frontend,
     plan |-> plan,
     err |-> err,
     ret |-> None,
     new_block |-> None,
     mapping |-> EmptyDict,
     blocks_to_swap_in |-> EmptyDict,
     blocks_to_swap_out |-> EmptyDict,
     blocks_to_copy |-> EmptyDict,
     copies |-> <<>>,
     reserve |-> <<>>]

\* The handler returned (or raised) in state s; the serving loop goes on
\* with the handler `next` unless an exception ended it.
Becomes(s, next) ==
    /\ pc' = IF Ok(s) THEN next ELSE "aborted"
    /\ block_size' = s.block_size
    /\ num_gpu_blocks' = s.num_gpu_blocks
    /\ num_cpu_blocks' = s.num_cpu_blocks
    /\ free_blocks' = s.free_blocks
    /\ ref_count' = s.ref_count
    /\ block_tables' = s.block_tables
    /\ seqs' = s.seqs
    /\ status' = s.status
    /\ logical_token_blocks' = s.logical_token_blocks
    /\ token_ids' = s.token_ids
    /\ running' = s.running
    /\ swapped' = s.swapped
    /\ pending' = s.pending
    /\ num_steps' = s.num_steps
    /\ sampling_params' = s.sampling_params
    /\ frontend' = s.frontend
    /\ plan' = s.plan
    /\ err' = s.err

\* No execute_stage call yet.
NoPlan ==
    [prompt_tokens |-> EmptyDict, generation_tokens |-> EmptyDict,
     context_lens |-> EmptyDict, block_tables |-> EmptyDict,
     blocks_to_swap_in |-> EmptyDict, blocks_to_swap_out |-> EmptyDict,
     blocks_to_copy |-> EmptyDict]

\* Scheduler.__init__ with BlockSpaceManager.__init__ and the two
\* BlockManager.__init__, for a frontend whose clients submit requests of
\* the kinds in `requests`.
Construct(bs, gpu, cpu, requests) ==
    /\ bs \in BlockSizes
    /\ block_size = bs
    /\ num_gpu_blocks = gpu
    /\ num_cpu_blocks = cpu
    /\ free_blocks = [d \in {"GPU", "CPU"} |->
                         BlockManager_init(d, IF d = "GPU" THEN gpu ELSE cpu)]
    /\ ref_count = [b \in Range(BlockManager_init("GPU", gpu))
                            \cup Range(BlockManager_init("CPU", cpu)) |-> 0]
    /\ block_tables = EmptyDict
    /\ seqs = EmptyDict
    /\ status = EmptyDict
    /\ logical_token_blocks = EmptyDict
    /\ token_ids = EmptyDict
    /\ running = <<>>
    /\ swapped = <<>>
    /\ pending = <<>>
    /\ num_steps = EmptyDict
    /\ sampling_params = EmptyDict
    /\ frontend = [next_group_id |-> 1, next_seq_id |-> 1,
                   requests |-> requests, responses |-> <<>>]
    /\ plan = NoPlan
    /\ pc = "step"
    /\ call = [op |-> "__init__"]
    /\ err = "none"

\* Pool sizes and request kinds of the main specification.
GpuPoolSizes == {4, 6}
CpuPoolSizes == {2, 6}
Requests ==
    [num_seqs : {1, 2}, prompt_len : {7, 8}, max_num_steps : {3}]

Init ==
    \E gpu \in GpuPoolSizes, cpu \in CpuPoolSizes :
        Construct(8, gpu, cpu, Requests)

\* What frontend.get_inputs() may return: any list of new requests, as long
\* as the run submits at most MaxGroups of them.
GetInputs ==
    UNION {[1..k -> frontend.requests] :
              k \in 0..(MaxGroups + 1 - frontend.next_group_id)}

\* The sampler's answers for post_step: for every live sequence of a running
\* group a parent among the live sequences of its group, and a token.
RECURSIVE NextTokens(_)
NextTokens(live) ==
    IF live = {} THEN {EmptyDict}
    ELSE LET q == CHOOSE x \in live : TRUE
             siblings == {x \in Range(seqs[GroupOf(State, q)]) :
                             status[x] = "RUNNING"}
         IN {(q :> <<p, t>>) @@ f :
                p \in siblings, t \in Tokens, f \in NextTokens(live \ {q})}

\* The serving loop calls step().
Step ==
    /\ pc = "step"
    /\ err = "none"
    /\ \E inputs \in GetInputs :
          /\ Becomes(step(State, inputs), "post_step")
          /\ call' = [op |-> "step", inputs |-> inputs,
                      copies |-> step(State, inputs).copies,
                      reserve |-> step(State, inputs).reserve]

\* The controller answers with the sampled tokens: post_step().
PostStep ==
    /\ pc = "post_step"
    /\ err = "none"
    /\ \E next_tokens \in NextTokens(PlanSeqs(State)) :
          /\ Becomes(post_step(State, next_tokens), "step")
          /\ call' = [op |-> "post_step", next_tokens |-> next_tokens]

Next == Step \/ PostStep

Spec == Init /\ [][Next]_vars

\* Long prompts: a server with block_size 32 whose clients submit prompts
\* of more than half of _MAX_NUM_BATCHED_TOKENS tokens.
LongRequests ==
    [num_seqs : {1, 2}, prompt_len : {1030}, max_num_steps : {1, 2}]

InitLong == Construct(32, 70, 35, LongRequests)

SpecLong == InitLong /\ [][Next]_vars

\* Small caps: a server whose clients ask for at most 0 or 1 generation
\* steps.  A group that outlives its cap would run for ever, so the serving
\* loop is followed for MaxSteps generation steps of a group only.
CapRequests ==
    [num_seqs : {1, 2}, prompt_len : {8}, max_num_steps : {0, 1}]

InitCap == Construct(8, 4, 2, CapRequests)

StepCapped ==
    /\ \A g \in DOMAIN num_steps : num_steps[g] < MaxSteps
    /\ Step

NextCap == StepCapped \/ PostStep

SpecCap == InitCap /\ [][NextCap]_vars

----------------------------------------------------------------------------
(* The block manager called directly.  Between two handlers of the serving *)
(* loop a caller swaps a running group out and in again, resets the block  *)
(* space manager, or calls the allocator of one tier; the run is followed  *)
(* up to that call.                                                        *)

InitManager == Construct(8, 4, 3, Requests)

\* swap_out(group) immediately followed by swap_in(group), for a running group.
SwapRoundTrip ==
    /\ pc \in {"step", "post_step"}
    /\ err = "none"
    /\ \E i \in DOMAIN running :
          /\ Becomes(swap_in(swap_out(State, running[i]), running[i]), "done")
          /\ call' = [op |-> "swap_round_trip", group |-> running[i]]

\* BlockSpaceManager.reset() in a state of the serving loop, also after an
\* exception of step or post_step has ended the loop.
Reset ==
    /\ pc \in {"step", "post_step", "aborted"}
    /\ call.op \in {"__init__", "step", "post_step"}
    /\ Becomes(reset([State EXCEPT !.err = "none"]), "done")
    /\ call' = [op |-> "reset"]

\* gpu_allocator.allocate() or cpu_allocator.allocate(); the call record
\* keeps the block returned.
Allocate ==
    /\ pc \in {"step", "post_step"}
    /\ err = "none"
    /\ \E device \in {"GPU", "CPU"} :
          /\ Becomes(BlockManager_allocate(State, device), "done")
          /\ call' = [op |-> "allocate", device |-> device,
                      ret |-> BlockManager_allocate(State, device).ret]

\* free(block) on the allocator of the block's tier, for any block.
Free ==
    /\ pc \in {"step", "post_step"}
    /\ err = "none"
    /\ \E block \in DOMAIN ref_count :
          /\ Becomes(BlockManager_free(State, block.device, block), "done")
          /\ call' = [op |-> "free", block |-> block]

NextManager == Step \/ PostStep \/ SwapRoundTrip \/ Reset \/ Allocate \/ Free

SpecManager == InitManager /\ [][NextManager]_vars

----------------------------------------------------------------------------
(* End-to-end scenario A: block_size 8, 4 device blocks, 4 host blocks,    *)
(* groups of one sibling with a 16-token prompt and 4 or 5 generation      *)
(* steps.                                                                  *)

ScenarioRequests ==
    [num_seqs : {1}, prompt_len : {16}, max_num_steps : {4, 5}]

InitScenario == Construct(8, 4, 4, ScenarioRequests)

SpecScenario == InitScenario /\ [][Next]_vars

----------------------------------------------------------------------------
(* Beam search: one group of two or three siblings on a pool of 6 device   *)
(* blocks; the frontend submits a single request.                          *)

BeamRequests ==
    [num_seqs : {2, 3}, prompt_len : {7, 8}, max_num_steps : {2}]

InitBeam == Construct(8, 6, 2, BeamRequests)

StepBeam ==
    /\ Step
    /\ frontend'.next_group_id <= 2

NextBeam == StepBeam \/ PostStep

SpecBeam == InitBeam /\ [][NextBeam]_vars

----------------------------------------------------------------------------
(* Queueing: prompts of one, two and five blocks on a pool of 4 device     *)
(* blocks, so that groups wait in pending, some of them for ever, while    *)
(* others run or are swapped out.                                          *)

QueueRequests ==
    [num_seqs : {1, 2}, prompt_len : {8, 16, 40}, max_num_steps : {3}]

InitQueue == Construct(8, 4, 6, QueueRequests)

SpecQueue == InitQueue /\ [][Next]_vars

----------------------------------------------------------------------------
(* Vocabulary of the properties.                                           *)

Devices == {"GPU", "CPU"}

\* The block-table entries (seq_id, index) that reference block b.
Entries(b) ==
    {e \in UNION {{<<q, i>> : i \in DOMAIN block_tables[q]} : q \in DOMAIN block_tables} :
        block_tables[e[1]][e[2]] = b}

\* The blocks of device d referenced by the tables of the groups of a queue.
BlocksOfQueue(queue, d) ==
    {b \in UNION {Range(block_tables[q]) :
                     q \in {x \in DOMAIN block_tables :
                               \E i \in DOMAIN queue : x \in Range(seqs[queue[i]])}} :
        b.device = d}

Reverse(l) == [i \in DOMAIN l |-> l[Len(l) + 1 - i]]

\* The sequences of a group that are not FINISHED.
LiveSeqs(g) == {q \in Range(seqs[g]) : status[q] # "FINISHED"}

\* Every submitted group has finished and been returned.
AllReturned ==
    /\ frontend.next_group_id > 1
    /\ Len(frontend.responses) = frontend.next_group_id - 1

----------------------------------------------------------------------------
(* C1: on both tiers, the ref_count of every physical block equals the     *)
(* number of block-table entries (seq_id, index) that reference the block. *)
C1_RefCountIsEntries ==
    \A b \in DOMAIN ref_count : ref_count[b] = Cardinality(Entries(b))

\* A block shared by two tables on the device tier while another block is
\* referenced on the host tier: allocate or fork, and swap_out, have acted.
C1_Witness ==
    /\ \E b \in DOMAIN ref_count : b.device = "GPU" /\ ref_count[b] = 2
    /\ \E b \in DOMAIN ref_count : b.device = "CPU" /\ ref_count[b] >= 1

(* C2: the swap-in and swap-out maps of one step are never both non-empty, *)
(* so the assertion after phase 3 of step() never fails.                   *)
C2_SwapMapsExclusive == err # "AssertionError_swap"

(* C3: no allocation on the device tier made inside step() finds the free  *)
(* list empty: after can_append, can_swap_in or can_allocate answered yes, *)
(* the appends, the swap-in and the allocation that follow succeed.        *)
C3_NoDeviceOutOfMemory == err # "OutOfMemory_GPU"

\* A step that swapped a group in and left no free device block behind.
C3_Witness ==
    /\ pc = "post_step"
    /\ DOMAIN plan.blocks_to_swap_in # {}
    /\ free_blocks["GPU"] = <<>>

(* C4: whenever phase 1 picks a victim, can_swap_out(victim) holds: the    *)
(* assertion of _swap_out never fails and the host tier never runs out.    *)
C4_VictimCanSwapOut ==
    err \notin {"AssertionError_can_swap_out", "OutOfMemory_CPU"}

C6_FreeIffZero ==
    \A d \in Devices :
        /\ \A b \in DOMAIN ref_count :
              b.device = d => ((b \in Range(free_blocks[d])) <=> ref_count[b] = 0)
        /\ \A i, j \in DOMAIN free_blocks[d] :
              free_blocks[d][i] = free_blocks[d][j] => i = j
        /\ \A i \in DOMAIN free_blocks[d] : free_blocks[d][i].device = d

\* A block went back to the device free list after being shared, while
\* other blocks are in use on both tiers.
C6_Witness ==
    /\ \E i \in DOMAIN free_blocks["GPU"] :
          i < Len(free_blocks["GPU"])
          /\ free_blocks["GPU"][i].block_number > free_blocks["GPU"][i + 1].block_number
    /\ \E b \in DOMAIN ref_count : b.device = "CPU" /\ ref_count[b] > 0
    /\ \E b \in DOMAIN ref_count : b.device = "GPU" /\ ref_count[b] > 1

(* C7: free device blocks plus the distinct device blocks referenced by    *)
(* the tables of running groups make num_total_gpu_blocks, likewise on the *)
(* host tier with the swapped groups; once every submitted group has been  *)
(* returned both pools are entirely free.                                  *)
C7_Conservation ==
    /\ Len(free_blocks["GPU"]) + Cardinality(BlocksOfQueue(running, "GPU"))
          = num_gpu_blocks
    /\ Len(free_blocks["CPU"]) + Cardinality(BlocksOfQueue(swapped, "CPU"))
          = num_cpu_blocks
    /\ (AllReturned /\ running = <<>> /\ swapped = <<>> /\ pending = <<>>) =>
          /\ Len(free_blocks["GPU"]) = num_gpu_blocks
          /\ Len(free_blocks["CPU"]) = num_cpu_blocks

\* All groups were returned after one of them had been swapped out and in.
C7_Witness ==
    /\ AllReturned
    /\ Len(frontend.responses) = MaxGroups
    /\ free_blocks["CPU"] # BlockManager_init("CPU", num_cpu_blocks)

(* C8: the blocks of one table are on one tier; the tables of the live     *)
(* sequences of a running group are on the device tier and the sequences   *)
(* RUNNING, those of a swapped group on the host tier and SWAPPED.         *)
C8_OneTier ==
    /\ \A q \in DOMAIN block_tables : \A i, j \in DOMAIN block_tables[q] :
          block_tables[q][i].device = block_tables[q][j].device
    /\ \A i \in DOMAIN running : \A q \in LiveSeqs(running[i]) :
          /\ status[q] = "RUNNING"
          /\ q \in DOMAIN block_tables =>
                \A k \in DOMAIN block_tables[q] : block_tables[q][k].device = "GPU"
    /\ \A i \in DOMAIN swapped : \A q \in LiveSeqs(swapped[i]) :
          /\ status[q] = "SWAPPED"
          /\ q \in DOMAIN block_tables =>
                \A k \in DOMAIN block_tables[q] : block_tables[q][k].device = "CPU"

(* C9: running, then swapped read from tail to head, then pending, is in   *)
(* arrival order (group ids are given in arrival order).                   *)
C9_ArrivalOrder ==
    LET order == running \o Reverse(swapped) \o pending
    IN \A i, j \in DOMAIN order : i < j => order[i] < order[j]

\* The number of tokens of the plan handed to execute_stage.
RECURSIVE SumPromptLens(_)
SumPromptLens(qs) ==
    IF qs = {} THEN 0
    ELSE LET q == CHOOSE x \in qs : TRUE
         IN Len(plan.prompt_tokens[q]) + SumPromptLens(qs \ {q})

PlanTokens ==
    SumPromptLens(DOMAIN plan.prompt_tokens)
        + Cardinality(DOMAIN plan.generation_tokens)

(* C10: the plan of every step holds at most _MAX_NUM_BATCHED_TOKENS       *)
(* tokens: the prompt tokens of all prompt-iteration sequences plus one    *)
(* token per generation-iteration sequence.                                *)
C10_BudgetRespected == PlanTokens <= _MAX_NUM_BATCHED_TOKENS

(* C11: a post_step in which a live sibling is given another sibling of    *)
(* its group as parent, the parent RUNNING when the plan was emitted,      *)
(* completes without error: the fork finds the block table of the parent,  *)
(* also when the parent finishes in the same post_step.                    *)
C11_ForkCompletes == call.op = "post_step" => err # "KeyError_fork"

(* C12: every sequence owns its logical blocks.  After a post_step that    *)
(* returns, get_token_ids of a sequence that was given (parent, token) is  *)
(* the token list the parent had when the plan was emitted followed by the *)
(* token, and the token list of every other sequence is unchanged.         *)
C12_OwnTokens ==
    [][(call'.op = "post_step" /\ err' = "none") =>
          \A q \in DOMAIN status' :
              get_token_ids(State', q) =
                  IF q \in DOMAIN call'.next_tokens
                  THEN get_token_ids(State, call'.next_tokens[q][1])
                           \o <<call'.next_tokens[q][2]>>
                  ELSE get_token_ids(State, q)]_vars

(* C13: max_num_steps caps the generation steps of a group, whatever its   *)
(* value: num_steps[group_id] never exceeds max_num_steps.                 *)
C13_StepsCapped ==
    \A g \in DOMAIN num_steps :
        num_steps[g] <= sampling_params[g].max_num_steps

\* The live siblings of sequence q in its group g, before the call.
OtherLive(g, q) == {r \in Range(seqs[g]) \ {q} : status[r] # "FINISHED"}

\* post_step(next_tokens) leaves sibling r of group g alone: r is its own
\* parent, its token is no stop token and the group does not reach its cap.
LeftAlone(next_tokens, g, r) ==
    /\ next_tokens[r][1] = r
    /\ next_tokens[r][2] \notin sampling_params[g].stop_token_ids
    /\ num_steps[g] + 1 # sampling_params[g].max_num_steps

\* What a stop token given to sibling q of group g does.
StopTokenEffect(next_tokens, g, q) ==
    /\ q \notin DOMAIN block_tables'
    /\ q \in DOMAIN status' => status'[q] = "FINISHED"
    /\ (\E r \in Range(seqs[g]) :
              r \in DOMAIN status' /\ status'[r] # "FINISHED")
          => \E i \in DOMAIN running' : running'[i] = g
    /\ (\A r \in OtherLive(g, q) : LeftAlone(next_tokens, g, r)) =>
          /\ \A b \in Range(block_tables[q]) : ref_count'[b] = ref_count[b] - 1
          /\ \A r \in OtherLive(g, q) :
                /\ status'[r] = status[r]
                /\ block_tables'[r] = block_tables[r]
                /\ \A b \in Range(block_tables[r]) :
                      /\ ref_count'[b] >= 1
                      /\ b \notin Range(free_blocks'[b.device])

(* C14: when post_step gives a live sibling a stop token, the sibling is   *)
(* FINISHED afterwards and has no block table, and its group is in running *)
(* afterwards if a sibling is still live; when the other live siblings     *)
(* are left alone by the same post_step, the ref_count of each block of    *)
(* the sibling's table drops by exactly one, and the others keep status    *)
(* and tables, their blocks staying allocated.                             *)
C14_StopToken ==
    [][call'.op = "post_step" =>
          \A q \in DOMAIN call'.next_tokens :
              call'.next_tokens[q][2]
                      \in sampling_params[GroupOf(State, q)].stop_token_ids
                  => StopTokenEffect(call'.next_tokens, GroupOf(State, q), q)]_vars

\* The groups the scheduler holds in one of its queues.
Queued == Range(running) \cup Range(swapped) \cup Range(pending)

(* C15: the result of a group is returned exactly once, in the post_step   *)
(* in which its last live sibling becomes FINISHED: no group is in the     *)
(* responses twice; a returned group is in no queue, has no num_steps and  *)
(* no sampling_params entry and none of its sequences has a block table;   *)
(* every submitted group is either queued or returned, and a queued group  *)
(* has a sibling that is not FINISHED.                                     *)
C15_ReturnedOnce ==
    /\ \A i, j \in DOMAIN frontend.responses :
          frontend.responses[i] = frontend.responses[j] => i = j
    /\ \A g \in Range(frontend.responses) :
          /\ g \notin Queued
          /\ g \notin DOMAIN num_steps
          /\ g \notin DOMAIN sampling_params
          /\ g \notin DOMAIN seqs
    /\ \A q \in DOMAIN block_tables :
          /\ q \in DOMAIN status
          /\ GroupOf(State, q) \in Queued
    /\ \A g \in 1..(frontend.next_group_id - 1) :
          g \in Queued \/ g \in Range(frontend.responses)
    /\ \A g \in Queued : \E q \in Range(seqs[g]) : status[q] # "FINISHED"

\* The table positions (seq_id, index) of the live siblings of group g.
LivePositions(g) ==
    UNION {{<<q, i>> : i \in DOMAIN block_tables[q]} : q \in LiveSeqs(g)}

\* The call left group g as it was up to a renaming of the device blocks:
\* every live sibling has a device table of the same length, two table
\* positions hold the same block afterwards iff they did before, the
\* blocks at corresponding positions have the same ref_count, the tables
\* of the other groups are untouched and both tiers have as many free
\* blocks as before.
RoundTripRestores(g) ==
    /\ err' = "none"
    /\ DOMAIN block_tables' = DOMAIN block_tables
    /\ \A q \in LiveSeqs(g) :
          /\ Len(block_tables'[q]) = Len(block_tables[q])
          /\ \A i \in DOMAIN block_tables'[q] :
                block_tables'[q][i].device = "GPU"
    /\ \A e, f \in LivePositions(g) :
          (block_tables'[e[1]][e[2]] = block_tables'[f[1]][f[2]])
              <=> (block_tables[e[1]][e[2]] = block_tables[f[1]][f[2]])
    /\ \A e \in LivePositions(g) :
          ref_count'[block_tables'[e[1]][e[2]]]
              = ref_count[block_tables[e[1]][e[2]]]
    /\ \A q \in DOMAIN block_tables \ LiveSeqs(g) :
          block_tables'[q] = block_tables[q]
    /\ \A d \in Devices : Len(free_blocks'[d]) = Len(free_blocks[d])

(* C16: for any running group, swap_out(group) immediately followed by     *)
(* swap_in(group) gives every live sibling a device table of the same      *)
(* length, related to the original tables by a bijection on blocks, with   *)
(* the same ref_counts, and leaves the free counts of both tiers as they   *)
(* were.                                                                   *)
C16_RoundTrip ==
    [][call'.op = "swap_round_trip" => RoundTripRestores(call'.group)]_vars

(* C16, amended: the same for any running group for which can_swap_out     *)
(* holds before the swap_out.                                              *)
C16_RoundTripWhenHostHasRoom ==
    [][(call'.op = "swap_round_trip" /\ can_swap_out(State, call'.group))
          => RoundTripRestores(call'.group)]_vars

\* A group whose two live siblings share a block and own one each came
\* back from a round trip on other device blocks.
C16_Witness ==
    /\ call.op = "swap_round_trip"
    /\ err = "none"
    /\ \E q, r \in LiveSeqs(call.group) :
          /\ q # r
          /\ Len(block_tables[q]) = 2 /\ Len(block_tables[r]) = 2
          /\ block_tables[q][1] = block_tables[r][1]
          /\ block_tables[q][2] # block_tables[r][2]
          /\ ref_count[block_tables[q][1]] = 2

(* C17: BlockSpaceManager.reset() raises no exception and leaves the       *)
(* mapping block_tables empty, every ref_count at 0 and every block of     *)
(* both tiers on its free list.                                            *)
C17_ResetFreesAll ==
    call.op = "reset" =>
        /\ err = "none"
        /\ block_tables = EmptyDict
        /\ \A b \in DOMAIN ref_count : ref_count[b] = 0
        /\ Len(free_blocks["GPU"]) = num_gpu_blocks
        /\ Len(free_blocks["CPU"]) = num_cpu_blocks
        /\ \A d \in Devices :
              Range(free_blocks[d]) = {b \in DOMAIN ref_count : b.device = d}

\* reset() was called while a group was swapped out and a group with two
\* live siblings was running.
C17_Witness ==
    /\ call.op = "reset"
    /\ swapped # <<>>
    /\ \E i \in DOMAIN running : Cardinality(LiveSeqs(running[i])) = 2
    /\ Len(free_blocks["GPU"]) = num_gpu_blocks
    /\ Len(free_blocks["CPU"]) = num_cpu_blocks

(* C18: after reset() the scheduler queues running, swapped and pending    *)
(* are empty.                                                              *)
C18_ResetClearsQueues ==
    call.op = "reset" => running = <<>> /\ swapped = <<>> /\ pending = <<>>

(* C19: allocate() on an empty free list raises OutOfMemory and free(block) *)
(* on a block whose ref_count is 0 raises DoubleFree, both leaving the     *)
(* free lists and every ref_count as they were; otherwise allocate returns *)
(* the last block of the free list, with ref_count 1 and no longer on the  *)
(* free list, and free raises nothing.                                     *)
C19_AllocatorErrors ==
    [][/\ call'.op = "allocate" =>
             IF free_blocks[call'.device] = <<>>
             THEN /\ err' = OutOfMemory(call'.device)
                  /\ free_blocks' = free_blocks
                  /\ ref_count' = ref_count
             ELSE /\ err' = "none"
                  /\ call'.ret = Last(free_blocks[call'.device])
                  /\ ref_count'[call'.ret] = 1
                  /\ call'.ret \notin Range(free_blocks'[call'.device])
                  /\ Len(free_blocks'[call'.device])
                         = Len(free_blocks[call'.device]) - 1
                  /\ \A b \in DOMAIN ref_count \ {call'.ret} :
                         ref_count'[b] = ref_count[b]
       /\ call'.op = "free" =>
             IF ref_count[call'.block] = 0
             THEN /\ err' = "DoubleFree"
                  /\ free_blocks' = free_blocks
                  /\ ref_count' = ref_count
             ELSE /\ err' = "none"
                  /\ ref_count'[call'.block] = ref_count[call'.block] - 1
      ]_vars

\* allocate() has raised OutOfMemory on a tier without a free block.
C19_Witness ==
    /\ call.op = "allocate"
    /\ err = OutOfMemory(call.device)
    /\ free_blocks[call.device] = <<>>

\* The step() just made is the k-th step of group 1 (sequence 1), the only
\* group submitted so far, and no stop token has been sampled.
ScenarioStep(k) ==
    /\ call'.op = "step"
    /\ err' = "none"
    /\ frontend'.next_group_id = 2
    /\ 1 \in DOMAIN num_steps'
    /\ num_steps'[1] = k - 1
    /\ status'[1] = "RUNNING"
    /\ \A i \in DOMAIN get_token_ids(State', 1) :
          get_token_ids(State', 1)[i] \notin StopTokenIds

\* The number of device blocks the step has taken from the free list.
NewDeviceBlocks == Len(free_blocks["GPU"]) - Len(free_blocks'["GPU"])

\* What step k of the scenario hands to the controller: the prompt at
\* step 1, the last token afterwards.
ScenarioEmits(k) ==
    IF k = 1
    THEN plan'.prompt_tokens = (1 :> Prompt(16))
    ELSE /\ plan'.prompt_tokens = EmptyDict
         /\ DOMAIN plan'.generation_tokens = {1}

(* C20: in scenario A step 1 takes 2 device blocks and emits the prompt,   *)
(* steps 2, 3 and 4 take no new device block, and step 5 is the first      *)
(* step whose append takes a new device block.                             *)
C20_ScenarioA ==
    [][\A k \in 1..5 :
          ScenarioStep(k) =>
              /\ ScenarioEmits(k)
              /\ NewDeviceBlocks = IF k = 1 THEN 2
                                   ELSE IF k = 5 THEN 1 ELSE 0]_vars

(* C20, amended: in scenario A step 1 takes 2 device blocks and emits the  *)
(* prompt, step 2 is the step whose append takes a new device block (the   *)
(* prompt fills both blocks), and steps 3, 4 and 5 take none.              *)
C20_ScenarioA_Step2Allocates ==
    [][\A k \in 1..5 :
          ScenarioStep(k) =>
              /\ ScenarioEmits(k)
              /\ NewDeviceBlocks = IF k = 1 THEN 2
                                   ELSE IF k = 2 THEN 1 ELSE 0
              /\ Len(block_tables'[1]) = IF k = 1 THEN 2 ELSE 3]_vars

\* The fifth step of the scenario has been made: the sequence holds the
\* prompt and four sampled tokens in three device blocks.
C20_Witness ==
    /\ call.op = "step"
    /\ err = "none"
    /\ frontend.next_group_id = 2
    /\ 1 \in DOMAIN num_steps
    /\ num_steps[1] = 4
    /\ status[1] = "RUNNING"
    /\ get_token_ids(State, 1) = Prompt(20)
    /\ Len(block_tables[1]) = 3
    /\ Len(free_blocks["GPU"]) = 1

(* C21: every copy-on-write pair (old block number, new block number)      *)
(* that BlockSpaceManager.append returns during a step is present in the   *)
(* blocks_to_copy map handed to execute_stage.                             *)
C21_CopiesInPlan ==
    (call.op = "step" /\ err = "none") =>
        \A i \in DOMAIN call.copies :
            /\ call.copies[i][1] \in DOMAIN plan.blocks_to_copy
            /\ plan.blocks_to_copy[call.copies[i][1]] = call.copies[i][2]

\* The number of can_append tests among the first j of phase 1 that failed.
FailedTests(reserve, j) ==
    Cardinality({k \in 1..j : ~reserve[k].can_append})

\* The victim cursor at the end of phase 1 of the step just made: the
\* length of running before the step less the number of failed tests.
FinalCursor == Len(running) - FailedTests(call'.reserve, Len(call'.reserve))

\* Phase 1 of the step just made preempted from the tail: every failed
\* can_append test swapped out the group at the victim cursor, the cursor
\* going down from the last index of running one group at a time and never
\* below the group tested; the victims are on swapped afterwards, newest
\* last, and the groups up to the final cursor head running.
VictimsFromTail ==
    /\ \A j \in DOMAIN call'.reserve :
          /\ call'.reserve[j].victim_idx
                 = Len(running) - FailedTests(call'.reserve, j - 1)
          /\ call'.reserve[j].i <= call'.reserve[j].victim_idx
    /\ FinalCursor >= 0
    /\ FinalCursor < Len(running) =>
          /\ swapped' = swapped
                 \o Reverse(SubSeq(running, FinalCursor + 1, Len(running)))
          /\ running' = SubSeq(running, 1, FinalCursor)
    /\ Len(running') >= FinalCursor
    /\ SubSeq(running', 1, FinalCursor) = SubSeq(running, 1, FinalCursor)

\* Every group up to the final cursor passed a can_append test and had
\* append called for each running sibling: the sibling's table covers its
\* logical blocks and ends in a block of its own.
SurvivorsAppended ==
    \A i \in 1..FinalCursor :
        /\ \E j \in DOMAIN call'.reserve :
              call'.reserve[j].i = i /\ call'.reserve[j].can_append
        /\ \A q \in Range(seqs[running[i]]) :
              status'[q] = "RUNNING" =>
                  /\ Len(block_tables'[q]) = Len(logical_token_blocks'[q])
                  /\ ref_count'[Last(block_tables'[q])] = 1

\* The head failed can_append with every younger group preempted: it is
\* swapped out too and the step ends with running empty, nothing swapped
\* in, nothing fetched from the frontend and nothing admitted.
HeadPreempted ==
    (\E j \in DOMAIN call'.reserve :
        /\ call'.reserve[j].i = 1
        /\ call'.reserve[j].victim_idx = 1
        /\ ~call'.reserve[j].can_append)
    => /\ err' = "none"
       /\ running' = <<>>
       /\ swapped' # <<>> /\ Last(swapped') = running[1]
       /\ plan'.blocks_to_swap_in = EmptyDict
       /\ frontend' = frontend
       /\ pending' = pending

(* C22: phase 1 of step preempts strictly from the tail: the victims are   *)
(* taken from the last index of running toward the head, a group is        *)
(* swapped out only when a group at an index not above its own fails       *)
(* can_append, every group up to the final victim cursor has had append    *)
(* called for each running sibling, and a head that cannot be given its    *)
(* slots with every younger group preempted is swapped out too, the step   *)
(* ending with running empty and nothing swapped in or admitted.           *)
C22_PreemptFromTail ==
    [][call'.op = "step" =>
          VictimsFromTail /\ SurvivorsAppended /\ HeadPreempted]_vars

(* C23: admission never jumps the swapped queue: when a step leaves        *)
(* swapped non-empty, get_inputs was not called (the frontend is as it     *)
(* was), pending is as it was and no pending group is in running; when a   *)
(* step that returns leaves swapped empty, every request offered was       *)
(* fetched.                                                                *)
C23_NoQueueJump ==
    [][call'.op = "step" =>
          /\ swapped' # <<>> =>
                /\ frontend' = frontend
                /\ pending' = pending
                /\ \A g \in Range(pending) : g \notin Range(running')
          /\ (swapped' = <<>> /\ err' = "none") =>
                frontend'.next_group_id
                    = frontend.next_group_id + Len(call'.inputs)]_vars

\* A step has returned with a group swapped out, nothing running and a
\* group still pending although the device pool has room for its prompt.
C23_Witness ==
    /\ call.op = "step"
    /\ err = "none"
    /\ swapped # <<>>
    /\ running = <<>>
    /\ pending # <<>>
    /\ can_allocate(State, pending[1])

\* The groups the step just made could admit, in arrival order: the groups
\* pending before it followed by the groups it fetched from the frontend.
Offered ==
    pending \o [k \in 1..(frontend'.next_group_id - frontend.next_group_id)
                   |-> frontend.next_group_id + k - 1]

\* num_batched_tokens of the step just made once it has admitted the first
\* n offered groups: one token per running sequence of the groups that
\* were running before phase 3 and the prompt length of each admitted group.
RECURSIVE AdmittedPromptLens(_)
AdmittedPromptLens(n) ==
    IF n = 0 THEN 0
    ELSE get_len(State', seqs'[Offered[n]][1]) + AdmittedPromptLens(n - 1)

BatchedAfter(n) ==
    SumRunning(State', SubSeq(running', 1, Len(running') - n))
        + AdmittedPromptLens(n)

\* The step just made admitted exactly the first n offered groups, in
\* order, and left the others pending in order; it stopped at a group that
\* fails can_allocate or the token budget.
AdmitsPrefix(n) ==
    /\ pending' = SubSeq(Offered, n + 1, Len(Offered))
    /\ Len(running') >= n
    /\ SubSeq(running', Len(running') - n + 1, Len(running'))
           = SubSeq(Offered, 1, n)
    /\ \A k \in 1..n :
          /\ Offered[k] \notin Range(running) \cup Range(swapped)
          /\ num_steps'[Offered[k]] = 0
    /\ (n < Len(Offered) /\ swapped' = <<>>
            /\ err' \in {"none", "AssertionError_swap"})
          => \/ ~can_allocate(State', Offered[n + 1])
             \/ BatchedAfter(n) + get_len(State', seqs'[Offered[n + 1]][1])
                    > _MAX_NUM_BATCHED_TOKENS

(* C24: pending is FIFO without loss or duplication: a step appends every  *)
(* group it fetches to pending once, admits a prefix of pending in order,  *)
(* stops at the first group that fails can_allocate or the token budget    *)
(* and leaves the others pending in unchanged order; pending holds no      *)
(* group twice and no group is admitted while a group that arrived         *)
(* earlier is pending.                                                     *)
C24_PendingFifo ==
    [][call'.op = "step" =>
          /\ frontend'.next_group_id - frontend.next_group_id
                 \in {0, Len(call'.inputs)}
          /\ \E n \in 0..Len(Offered) : AdmitsPrefix(n)
          /\ \A i, j \in DOMAIN pending' : i < j => pending'[i] < pending'[j]
          /\ \A p \in Range(pending') :
                 \A h \in DOMAIN num_steps' \cup Range(frontend'.responses) :
                     h < p]_vars

\* A step has left two groups pending: the first does not fit the device
\* pool and the second, which does, waits behind it.
C24_Witness ==
    /\ call.op = "step"
    /\ err = "none"
    /\ Len(pending) = 2
    /\ ~can_allocate(State, pending[1])
    /\ can_allocate(State, pending[2])

\* The number of blocks that hold n tokens.
BlocksFor(n) == (n + block_size - 1) \div block_size

\* Every request the clients may submit has max_num_steps >= 1, a prompt
\* within the token budget and a final length (prompt plus max_num_steps
\* tokens, for all siblings) that fits the device pool and the host pool.
RequestsFit ==
    \A r \in frontend.requests :
        /\ r.max_num_steps >= 1
        /\ r.prompt_len <= _MAX_NUM_BATCHED_TOKENS
        /\ r.num_seqs * BlocksFor(r.prompt_len + r.max_num_steps) <= num_gpu_blocks
        /\ r.num_seqs * BlocksFor(r.prompt_len + r.max_num_steps) <= num_cpu_blocks

\* Nothing runs, a group is swapped out and the group phase 2 tries first
\* fails can_swap_in: step() changes nothing and emits an empty plan.
Stalled ==
    /\ running = <<>>
    /\ swapped # <<>>
    /\ ~can_swap_in(State, Last(swapped))

(* C25: when every request has max_num_steps >= 1 and fits the token       *)
(* budget and both pools, the serving loop never reaches a state with      *)
(* unfinished groups from which every later step emits an empty plan, so   *)
(* that every submitted group is eventually returned.                      *)
C25_NoStall ==
    (RequestsFit /\ err = "none") => ~Stalled

\* The RUNNING siblings of group g, in the order of seq_group.seqs.
RunningSiblings(g) ==
    SelectSeq(seqs[g], LAMBDA q : status[q] = "RUNNING")

\* Before the step just made the k >= 2 running siblings of group g shared
\* their tail block, which had room for the token of each.
SharedTail(g) ==
    /\ Len(RunningSiblings(g)) >= 2
    /\ \A q \in Range(RunningSiblings(g)) :
          /\ q \in DOMAIN block_tables /\ block_tables[q] # <<>>
          /\ Last(block_tables[q]) = Last(block_tables[RunningSiblings(g)[1]])
          /\ Len(block_tables[q]) = Len(logical_token_blocks[q])
    /\ ref_count[Last(block_tables[RunningSiblings(g)[1]])]
           = Len(RunningSiblings(g))

\* The step just made copied the shared tail of group g for every running
\* sibling but the last, which keeps the original block.
CopiesAllButLast(g) ==
    LET sib == RunningSiblings(g)
        tail == Last(block_tables[sib[1]])
    IN /\ Cardinality({i \in DOMAIN call'.copies :
                          call'.copies[i][1] = tail.block_number})
             = Len(sib) - 1
       /\ Last(block_tables'[Last(sib)]) = tail
       /\ \A i \in 1..(Len(sib) - 1) :
             /\ Last(block_tables'[sib[i]]) # tail
             /\ \E j \in DOMAIN call'.copies :
                   call'.copies[j] =
                       <<tail.block_number,
                         Last(block_tables'[sib[i]]).block_number>>

(* C26: in every plan step emits, each sequence in generation iteration    *)
(* has as last entry of its emitted block table a device block with        *)
(* ref_count 1, so no two sequences write their new token into the same    *)
(* block; when k siblings share a tail block that has room, the step makes *)
(* exactly k-1 copy-on-write allocations for it and the last sibling       *)
(* processed keeps the original block.                                     *)
C26_WriteExclusiveTail ==
    [][(call'.op = "step" /\ err' = "none") =>
          /\ \A q \in DOMAIN plan'.generation_tokens :
                /\ plan'.block_tables[q] # <<>>
                /\ Last(plan'.block_tables[q])
                       = Last(block_tables'[q]).block_number
                /\ Last(block_tables'[q]).device = "GPU"
                /\ ref_count'[Last(block_tables'[q])] = 1
                /\ \A r \in DOMAIN plan'.generation_tokens \ {q} :
                       Last(plan'.block_tables[r]) # Last(plan'.block_tables[q])
          /\ \A g \in Range(running) \cap Range(running') :
                SharedTail(g) => CopiesAllButLast(g)]_vars

\* A step has copied the tail block that three siblings shared twice: the
\* first two siblings write into blocks of their own, the third into the
\* original.
C26_Witness ==
    /\ call.op = "step"
    /\ err = "none"
    /\ Len(call.copies) = 2
    /\ call.copies[1][1] = call.copies[2][1]
    /\ \E g \in Range(running) :
          /\ Len(seqs[g]) = 3
          /\ Last(block_tables[seqs[g][3]]).block_number = call.copies[1][1]
          /\ \A q \in Range(seqs[g]) :
                /\ q \in DOMAIN plan.generation_tokens
                /\ ref_count[Last(block_tables[q])] = 1

====
